---- MODULE Spec2Model ----
(***************************************************************************)
(* A model of package cmux (src/cmux.go): a connection multiplexer that    *)
(* reads the first bytes of a stream, matches them against registered      *)
(* byte patterns held in a trie, and hands the stream, with the bytes it   *)
(* consumed put back in front, to the handler of the matching pattern.     *)
(*                                                                         *)
(* The trie (github.com/wzshiming/trie) and UnreadConn are not part of     *)
(* src/cmux.go; they are modelled from the contract the specification      *)
(* gives for them (sections 4.1 and 4.3).                                  *)
(***************************************************************************)
EXTENDS Integers, Sequences, FiniteSets, TLC

\* ---------------------------------------------------------------- bounds
\* Longest pattern that is registered.
MaxPatLen == 2
\* Most patterns the trie holds.
MaxPatterns == 2
\* Most bytes a handler reads from the underlying stream after the replay.
MaxExtra == 1

\* ------------------------------------------------------------ universes
Byte == {1, 2}
Handlers == {"H1", "H2"}
\* Go's nil, for a Handler and for an error.
None == "nil"
ErrNotFound == "error not found"
\* The error a stream's Read reports (io.EOF stands for every read error:
\* Handler only tests err != nil).
ReadErrors == {"EOF"}
\* The dispatches (one per accepted connection).
Procs == {1, 2}

SeqUpTo(n) == UNION {[1..k -> Byte] : k \in 0..n}
Patterns == SeqUpTo(MaxPatLen) \ {<<>>}
\* HandlePrefix is called with no, one or two prefixes.
PrefixLists ==
    {<<>>} \cup {<<a>> : a \in Patterns} \cup {<<a, b>> : a, b \in Patterns}

Range(s) == {s[i] : i \in 1..Len(s)}

IsPrefix(s, t) == Len(s) <= Len(t) /\ SubSeq(t, 1, Len(s)) = s

\* ------------------------------------------- the pattern index (trie)
\* A trie is the function from its registered patterns to their handlers.
NewTrie == [k \in {} |-> None]

Put(t, key, val) ==
    [k \in (DOMAIN t) \cup {key} |-> IF k = key THEN val ELSE t[k]]

Size(t) == Cardinality(DOMAIN t)

Depth(t) ==
    IF DOMAIN t = {} THEN 0
    ELSE CHOOSE n \in 0..MaxPatLen + 1 :
           /\ \E k \in DOMAIN t : Len(k) = n
           /\ \A k \in DOMAIN t : Len(k) <= n

\* A cursor is a position of the trie: the bytes walked from the root, or nil.
NilCursor == [nil |-> TRUE, path |-> <<>>]
Cursor(path) == [nil |-> FALSE, path |-> path]
Mapping(t) == Cursor(<<>>)

\* advance(cursor, chunk): ok says that the chunk is a valid continuation of a
\* registered pattern, data is the handler of the pattern that the bytes
\* walked so far spell exactly, next is nil once no pattern extends them.
Get(t, cur, chunk) ==
    LET path == cur.path \o chunk IN
    [data |-> IF path \in DOMAIN t THEN t[path] ELSE None,
     next |-> IF \E k \in DOMAIN t : Len(k) > Len(path) /\ IsPrefix(path, k)
              THEN Cursor(path) ELSE NilCursor,
     ok   |-> \E k \in DOMAIN t : IsPrefix(path, k)]

\* ------------------------------------------------------------- state
VARIABLES
    trie,       \* CMux.trie
    notFound,   \* CMux.notFound
    pc,         \* per dispatch: "idle", "loop", "resolved", "done"
    prefix,     \* Handler's buffer, make([]byte, Depth)
    off,        \* Handler's off
    parent,     \* Handler's parent (the cursor)
    handler,    \* Handler's named result handler, while the loop runs
    ret,        \* what Handler returned: [handler, prefix, err]
    taken,      \* the bytes the underlying stream has delivered, in order
    nreads,     \* Read calls Handler made on the stream
    lastRead,   \* Handler's i, err of its latest Read: [i, err]
    hist,       \* what each Read of the call returned, in order
    latest,     \* log: per pattern, the handler of the latest call naming it
    lastFallback, \* log: the handler of the latest NotFound call
    replaced,   \* log: the patterns whose handler a later call changed
    logging,    \* whether this behaviour keeps the replaced log
    closed,     \* ServeConn closed the stream
    invoked,    \* the handlers ServeConn invoked, in order
    wrapped,    \* the conn given to the handler: [active, buf]
    out         \* the bytes the handler has read from the wrapped conn

regVars == <<trie, notFound>>
loopVars == <<prefix, off, parent, handler>>
streamVars == <<taken, nreads, lastRead, hist>>
logVars == <<latest, lastFallback, replaced, logging>>
connVars == <<closed, invoked, wrapped, out>>
vars == <<trie, notFound, pc, prefix, off, parent, handler, ret, taken,
          nreads, lastRead, hist, latest, lastFallback, replaced, logging,
          closed, invoked, wrapped, out>>

NoRet == [handler |-> None, prefix |-> <<>>, err |-> None]
NoConn == [active |-> FALSE, buf |-> <<>>]
NoRead == [i |-> 0, err |-> None]

Start ==
    /\ trie = NewTrie
    /\ notFound = None
    /\ pc = [p \in Procs |-> "idle"]
    /\ prefix = [p \in Procs |-> <<>>]
    /\ off = [p \in Procs |-> 0]
    /\ parent = [p \in Procs |-> NilCursor]
    /\ handler = [p \in Procs |-> None]
    /\ ret = [p \in Procs |-> NoRet]
    /\ taken = [p \in Procs |-> <<>>]
    /\ nreads = [p \in Procs |-> 0]
    /\ lastRead = [p \in Procs |-> NoRead]
    /\ hist = [p \in Procs |-> <<>>]
    /\ latest = [k \in {} |-> None]
    /\ lastFallback = None
    /\ replaced = {}
    /\ closed = [p \in Procs |-> FALSE]
    /\ invoked = [p \in Procs |-> <<>>]
    /\ wrapped = [p \in Procs |-> NoConn]
    /\ out = [p \in Procs |-> <<>>]

Init == Start /\ logging = FALSE

\* The same start, for behaviours that keep the replaced log.
InitLog == Start /\ logging = TRUE

\* Registration is complete before serving begins (two-phase lifecycle).
Configuring == \A p \in Procs : pc[p] = "idle"

\* ------------------------------------------------------ registration
\* A variant of PutAll that stops after the first prefix.
PutAllFirstOnly(t, h, ps) ==
    IF ps = <<>> THEN t ELSE Put(t, Head(ps), h)

RECURSIVE PutAll(_, _, _)
PutAll(t, h, ps) ==
    IF ps = <<>> THEN t ELSE PutAll(Put(t, Head(ps), h), h, Tail(ps))

NotFound(h) ==
    /\ Configuring
    /\ notFound' = h
    /\ lastFallback' = h
    /\ UNCHANGED <<trie, latest, replaced, logging, pc, loopVars, ret,
                   streamVars, connVars>>

HandlePrefix(h, ps) ==
    /\ Configuring
    /\ Size(PutAll(trie, h, ps)) <= MaxPatterns
    /\ trie' = PutAll(trie, h, ps)
    /\ latest' = [k \in (DOMAIN latest) \cup Range(ps) |->
                    IF k \in Range(ps) THEN h ELSE latest[k]]
    /\ replaced' = IF logging
                    THEN replaced \cup
                         {k \in Range(ps) \cap DOMAIN latest : latest[k] # h}
                    ELSE replaced
    /\ UNCHANGED <<notFound, lastFallback, logging, pc, loopVars, ret,
                   streamVars, connVars>>

\* ------------------------------------------------------------ Handler
\* A variant of EmptyResult that forgets the fallback.
EmptyResultNoFallback(nf) ==
    [handler |-> None, prefix |-> <<>>, err |-> ErrNotFound]

\* Lines 57-62: the empty trie.
EmptyResult(nf) ==
    IF nf = None THEN [handler |-> None, prefix |-> <<>>, err |-> ErrNotFound]
    ELSE [handler |-> nf, prefix |-> <<>>, err |-> None]

\* A variant of AfterLoop that forgets the fallback.
AfterLoopNoFallback(h, buf, o, nf) ==
    IF h = None
    THEN [handler |-> None, prefix |-> SubSeq(buf, 1, o), err |-> ErrNotFound]
    ELSE [handler |-> h, prefix |-> SubSeq(buf, 1, o), err |-> None]

\* A variant of AfterLoop that returns the fallback without testing it.
AfterLoopUnchecked(h, buf, o, nf) ==
    IF h = None
    THEN [handler |-> nf, prefix |-> SubSeq(buf, 1, o), err |-> None]
    ELSE [handler |-> h, prefix |-> SubSeq(buf, 1, o), err |-> None]

\* Lines 86-92: after the loop.
AfterLoop(h, buf, o, nf) ==
    IF h = None
    THEN IF nf = None
         THEN [handler |-> None, prefix |-> SubSeq(buf, 1, o), err |-> ErrNotFound]
         ELSE [handler |-> nf, prefix |-> SubSeq(buf, 1, o), err |-> None]
    ELSE [handler |-> h, prefix |-> SubSeq(buf, 1, o), err |-> None]

\* A variant of ReadFailed that reports every failure as ErrNotFound.
ReadFailedAsNotFound(buf, o, e) ==
    [handler |-> None, prefix |-> <<>>, err |-> ErrNotFound]

\* Lines 68-70: the read reported an error.
ReadFailed(buf, o, e) == [handler |-> None, prefix |-> <<>>, err |-> e]

\* A variant of Remember that drops what the trie reports.
RememberNothing(h, g) == h

\* Lines 76-78: remember the handler the trie reports.
Remember(h, g) == IF g.ok /\ g.data # None THEN g.data ELSE h

\* A variant of NextOff that counts reads instead of bytes.
NextOffByOne(o, i) == o + 1

\* Line 80.
NextOff(o, i) == o + i

\* A variant of EmptyReadEnds that goes on after an empty read.
EmptyReadIgnored(i) == FALSE

\* Lines 71-73: a read of no bytes ends the loop.
EmptyReadEnds(i) == i = 0

\* A variant of NoNextEnds that goes on after the trie reported no cursor.
NoNextIgnored(g) == FALSE

\* Lines 81-83: no further cursor ends the loop.
NoNextEnds(g) == g.next = NilCursor

\* A variant of MakePrefix with one byte too many.
MakePrefixTooLong(t) == [k \in 1..Depth(t) + 1 |-> 0]

\* Line 65: the buffer.
MakePrefix(t) == [k \in 1..Depth(t) |-> 0]

\* Line 67: the slice prefix[off:] handed to Read has this many bytes of room.
Room(buf, o) == Len(buf) - o

\* What one Read call on a stream may return: up to room bytes, with or
\* without an error.
ReadResults(room) ==
    {[bytes |-> b, err |-> e] : b \in SeqUpTo(room), e \in {None} \cup ReadErrors}

\* Read stores the bytes at prefix[off:].
Store(buf, o, b) ==
    [k \in 1..Len(buf) |->
        IF k > o /\ k <= o + Len(b) THEN b[k - o] ELSE buf[k]]

\* A variant of HandlerEnter in which the offset is one field of the CMux,
\* shared by all calls, instead of a local of the call.
HandlerEnterSharedOff(p) ==
    /\ pc[p] = "idle"
    /\ IF Size(trie) = 0
       THEN /\ ret' = [ret EXCEPT ![p] = EmptyResult(notFound)]
            /\ pc' = [pc EXCEPT ![p] = "resolved"]
            /\ UNCHANGED loopVars
       ELSE /\ parent' = [parent EXCEPT ![p] = Mapping(trie)]
            /\ off' = [q \in Procs |-> 0]
            /\ prefix' = [prefix EXCEPT ![p] = MakePrefix(trie)]
            /\ pc' = [pc EXCEPT ![p] = "loop"]
            /\ UNCHANGED <<handler, ret>>
    /\ UNCHANGED <<regVars, logVars, streamVars, connVars>>

\* ServeConn calls Handler; lines 57-65.
HandlerEnter(p) ==
    /\ pc[p] = "idle"
    /\ IF Size(trie) = 0
       THEN /\ ret' = [ret EXCEPT ![p] = EmptyResult(notFound)]
            /\ pc' = [pc EXCEPT ![p] = "resolved"]
            /\ UNCHANGED loopVars
       ELSE /\ parent' = [parent EXCEPT ![p] = Mapping(trie)]
            /\ off' = [off EXCEPT ![p] = 0]
            /\ prefix' = [prefix EXCEPT ![p] = MakePrefix(trie)]
            /\ pc' = [pc EXCEPT ![p] = "loop"]
            /\ UNCHANGED <<handler, ret>>
    /\ UNCHANGED <<regVars, logVars, streamVars, connVars>>

\* One iteration of the loop, lines 67-85, and on leaving it lines 86-92.
HandlerStep(p) ==
    /\ pc[p] = "loop"
    /\ \E rd \in ReadResults(Room(prefix[p], off[p])) :
        LET i == Len(rd.bytes)
            buf == Store(prefix[p], off[p], rd.bytes)
            g == Get(trie, parent[p], SubSeq(buf, off[p] + 1, off[p] + i))
            h == Remember(handler[p], g)
            o == NextOff(off[p], i)
        IN
        /\ taken' = [taken EXCEPT ![p] = @ \o rd.bytes]
        /\ nreads' = [nreads EXCEPT ![p] = @ + 1]
        /\ lastRead' = [lastRead EXCEPT ![p] = [i |-> i, err |-> rd.err]]
        /\ hist' = [hist EXCEPT ![p] = Append(@, rd)]
        /\ prefix' = [prefix EXCEPT ![p] = buf]
        /\ IF rd.err # None
           THEN /\ ret' = [ret EXCEPT ![p] = ReadFailed(buf, off[p], rd.err)]
                /\ pc' = [pc EXCEPT ![p] = "resolved"]
                /\ UNCHANGED <<off, parent, handler>>
           ELSE IF EmptyReadEnds(i)
           THEN /\ ret' = [ret EXCEPT ![p] = AfterLoop(handler[p], buf, off[p], notFound)]
                /\ pc' = [pc EXCEPT ![p] = "resolved"]
                /\ UNCHANGED <<off, parent, handler>>
           ELSE /\ handler' = [handler EXCEPT ![p] = h]
                /\ off' = [off EXCEPT ![p] = o]
                /\ IF NoNextEnds(g)
                   THEN /\ ret' = [ret EXCEPT ![p] = AfterLoop(h, buf, o, notFound)]
                        /\ pc' = [pc EXCEPT ![p] = "resolved"]
                        /\ UNCHANGED parent
                   ELSE /\ parent' = [parent EXCEPT ![p] = g.next]
                        /\ UNCHANGED <<ret, pc>>
    /\ UNCHANGED <<regVars, logVars, connVars>>

\* Handler run alone, lines 56-93, on a stream whose Read calls return reads
\* in this order: where the call stands once they are used up.
RECURSIVE SoloLoop(_, _, _, _, _, _, _)
SoloLoop(t, nf, cur, h, buf, o, reads) ==
    IF reads = <<>>
    THEN [pc |-> "loop", parent |-> cur, handler |-> h, prefix |-> buf,
          off |-> o, ret |-> NoRet]
    ELSE LET rd == Head(reads)
             i == Len(rd.bytes)
             b == Store(buf, o, rd.bytes)
             g == Get(t, cur, SubSeq(b, o + 1, o + i))
             h2 == Remember(h, g)
             o2 == NextOff(o, i)
         IN  IF rd.err # None
             THEN [pc |-> "resolved", parent |-> cur, handler |-> h,
                   prefix |-> b, off |-> o, ret |-> ReadFailed(b, o, rd.err)]
             ELSE IF EmptyReadEnds(i)
             THEN [pc |-> "resolved", parent |-> cur, handler |-> h,
                   prefix |-> b, off |-> o, ret |-> AfterLoop(h, b, o, nf)]
             ELSE IF NoNextEnds(g)
             THEN [pc |-> "resolved", parent |-> cur, handler |-> h2,
                   prefix |-> b, off |-> o2, ret |-> AfterLoop(h2, b, o2, nf)]
             ELSE SoloLoop(t, nf, g.next, h2, b, o2, Tail(reads))

Solo(t, nf, reads) ==
    IF Size(t) = 0
    THEN [pc |-> "resolved", parent |-> NilCursor, handler |-> None,
          prefix |-> <<>>, off |-> 0, ret |-> EmptyResult(nf)]
    ELSE SoloLoop(t, nf, Mapping(t), None, MakePrefix(t), 0, reads)

\* ---------------------------------------------------------- ServeConn
\* UnreadConn(conn, buf): reads are served from buf first, then from conn.
UnreadConn(buf) == [active |-> TRUE, buf |-> buf]

\* A variant of ServeConnFinish that closes the stream and still goes on to
\* invoke what Handler returned.
ServeConnFinishNoReturn(p) ==
    /\ pc[p] = "resolved"
    /\ pc' = [pc EXCEPT ![p] = "done"]
    /\ closed' = [closed EXCEPT ![p] = ret[p].err # None]
    /\ wrapped' = [wrapped EXCEPT ![p] = [active |-> TRUE, buf |-> ret[p].prefix]]
    /\ invoked' = [invoked EXCEPT ![p] = Append(@, ret[p].handler)]
    /\ UNCHANGED <<regVars, logVars, loopVars, ret, streamVars, out>>

\* A variant of ServeConnFinish that drops the fallback when Handler failed.
ServeConnFinishDropsFallback(p) ==
    /\ pc[p] = "resolved"
    /\ pc' = [pc EXCEPT ![p] = "done"]
    /\ IF ret[p].err # None
       THEN /\ closed' = [closed EXCEPT ![p] = TRUE]
            /\ notFound' = None
            /\ UNCHANGED <<invoked, wrapped>>
       ELSE /\ wrapped' = [wrapped EXCEPT ![p] = UnreadConn(ret[p].prefix)]
            /\ invoked' = [invoked EXCEPT ![p] = Append(@, ret[p].handler)]
            /\ UNCHANGED <<closed, notFound>>
    /\ UNCHANGED <<trie, logVars, loopVars, ret, streamVars, out>>

\* A variant of ServeConnFinish that hands the conn to the handler as it is,
\* without wrapping it.
ServeConnFinishNoUnread(p) ==
    /\ pc[p] = "resolved"
    /\ pc' = [pc EXCEPT ![p] = "done"]
    /\ IF ret[p].err # None
       THEN /\ closed' = [closed EXCEPT ![p] = TRUE]
            /\ UNCHANGED <<invoked, wrapped>>
       ELSE /\ invoked' = [invoked EXCEPT ![p] = Append(@, ret[p].handler)]
            /\ UNCHANGED <<closed, wrapped>>
    /\ UNCHANGED <<regVars, logVars, loopVars, ret, streamVars, out>>

\* Lines 98-103, after Handler returned.
ServeConnFinish(p) ==
    /\ pc[p] = "resolved"
    /\ pc' = [pc EXCEPT ![p] = "done"]
    /\ IF ret[p].err # None
       THEN /\ closed' = [closed EXCEPT ![p] = TRUE]
            /\ UNCHANGED <<invoked, wrapped>>
       ELSE /\ wrapped' = [wrapped EXCEPT ![p] = UnreadConn(ret[p].prefix)]
            /\ invoked' = [invoked EXCEPT ![p] = Append(@, ret[p].handler)]
            /\ UNCHANGED closed
    /\ UNCHANGED <<regVars, logVars, loopVars, ret, streamVars, out>>

\* The invoked handler reads from the conn it was given.
WrappedRead(p) ==
    /\ pc[p] = "done"
    /\ wrapped[p].active
    /\ IF wrapped[p].buf # <<>>
       THEN \E n \in 1..Len(wrapped[p].buf) :
              /\ out' = [out EXCEPT ![p] = @ \o SubSeq(wrapped[p].buf, 1, n)]
              /\ wrapped' = [wrapped EXCEPT ![p].buf =
                               SubSeq(@, n + 1, Len(@))]
              /\ UNCHANGED taken
       ELSE \E b \in Byte :
              /\ Len(out[p]) < Len(ret[p].prefix) + MaxExtra
              /\ taken' = [taken EXCEPT ![p] = Append(@, b)]
              /\ out' = [out EXCEPT ![p] = Append(@, b)]
              /\ UNCHANGED wrapped
    /\ UNCHANGED <<regVars, logVars, pc, loopVars, ret, nreads, lastRead, hist,
                   closed, invoked>>

\* --------------------------------------------------- specifications
Register ==
    /\ Configuring
    /\ \/ \E h \in Handlers \cup {None} : NotFound(h)
       \/ \E h \in Handlers, ps \in PrefixLists : HandlePrefix(h, ps)

Dispatch(p) ==
    \/ HandlerEnter(p)
    \/ HandlerStep(p)
    \/ ServeConnFinish(p)
    \/ WrappedRead(p)

\* One connection is served.
Next == Register \/ Dispatch(1)

Spec == Init /\ [][Next]_vars

\* Handler is called once, without the ServeConn around it.
NextResolve ==
    \/ Register
    \/ HandlerEnter(1)
    \/ HandlerStep(1)

\* Handler is called once and replaced registrations are logged.
SpecLog == InitLog /\ [][NextResolve]_vars

\* Handler is called once on a stream whose every Read call returns.
SpecFair == Init /\ [][NextResolve]_vars /\ WF_vars(HandlerStep(1))

\* One connection is served by a CMux for whose patterns nil handlers may
\* have been registered too; the handler's reads of the wrapped connection
\* are left out.
RegisterNil ==
    /\ Configuring
    /\ \E ps \in PrefixLists : HandlePrefix(None, ps)

NextNil ==
    \/ Register
    \/ RegisterNil
    \/ HandlerEnter(1)
    \/ HandlerStep(1)
    \/ ServeConnFinish(1)

SpecNil == Init /\ [][NextNil]_vars

\* Connections are served concurrently.
NextPair == Register \/ \E p \in Procs : Dispatch(p)

SpecPair == Init /\ [][NextPair]_vars

\* ------------------------------------------------------------ claims
Returned(p) == pc[p] \in {"resolved", "done"}

\* The loop ended on a read that delivered bytes without an error, that is
\* because the trie reported no further cursor.
EndedOnData(p) == lastRead[p].err = None /\ lastRead[p].i > 0

Matches(bs) == {k \in DOMAIN trie : IsPrefix(k, bs)}
Longest(ms) == CHOOSE k \in ms : \A j \in ms : Len(j) <= Len(k)

\* C1: whenever Handler succeeds, the handler it returns is the one of the
\* longest registered pattern that is a prefix of the bytes it consumed, and
\* it is the fallback only when no registered pattern is such a prefix.
C1_MostSpecificWins ==
    \A p \in Procs :
        (Returned(p) /\ ret[p].err = None) =>
            IF Matches(ret[p].prefix) = {}
            THEN ret[p].handler = notFound
            ELSE ret[p].handler = trie[Longest(Matches(ret[p].prefix))]

\* C2: two resolutions of the same byte sequence, none of them cut short by
\* a read error or an empty read, return the same handler and the same error
\* however the bytes were split into reads.
C2_ChunkingIndependent ==
    \A p, q \in Procs :
        (/\ Returned(p) /\ Returned(q)
         /\ EndedOnData(p) /\ EndedOnData(q)
         /\ ret[p].prefix = ret[q].prefix)
        => (ret[p].handler = ret[q].handler /\ ret[p].err = ret[q].err)

\* C3: on success the consumed bytes Handler returns are exactly the bytes
\* taken from the stream, and what the handler reads from the wrapped conn,
\* followed by what is left to replay, is exactly what the stream delivered.
C3_ReplayFidelity ==
    \A p \in Procs :
        /\ (pc[p] = "resolved" /\ ret[p].err = None) => ret[p].prefix = taken[p]
        /\ wrapped[p].active => out[p] \o wrapped[p].buf = taken[p]

\* The handler has read a replayed prefix of two bytes and a live byte.
C3_Witness ==
    \E p \in Procs :
        /\ wrapped[p].active
        /\ Len(ret[p].prefix) = 2
        /\ Len(out[p]) = 3
        /\ nreads[p] = 2

\* C4: a read that fails with no bytes after an earlier read delivered bytes
\* does not fail Handler: the result is the remembered handler, else the
\* fallback, else ErrNotFound, with the bytes read so far.
C4_ErrorAfterDataEndsLoop ==
    \A p \in Procs :
        (/\ Returned(p)
         /\ lastRead[p].err # None /\ lastRead[p].i = 0
         /\ off[p] > 0)
        => /\ ret[p].prefix = SubSeq(prefix[p], 1, off[p])
           /\ IF handler[p] # None
              THEN ret[p].handler = handler[p] /\ ret[p].err = None
              ELSE IF notFound # None
              THEN ret[p].handler = notFound /\ ret[p].err = None
              ELSE ret[p].handler = None /\ ret[p].err = ErrNotFound

\* C5: a dispatch ends in exactly one of two ways: Handler failed, the stream
\* is closed and no handler was invoked; or Handler succeeded, the handler it
\* returned was invoked once with the wrapped conn and the stream is not
\* closed. Nothing is invoked or closed before that, and once the dispatch has
\* ended it reads, resolves, invokes and closes nothing more.
C5_Outcome ==
    \A p \in Procs :
        /\ Len(invoked[p]) <= 1
        /\ pc[p] # "done" =>
              ~closed[p] /\ invoked[p] = <<>> /\ ~wrapped[p].active
        /\ pc[p] = "done" =>
              IF ret[p].err # None
              THEN closed[p] /\ invoked[p] = <<>> /\ ~wrapped[p].active
              ELSE ~closed[p] /\ invoked[p] = <<ret[p].handler>>
                   /\ wrapped[p].active

C5_NoRetry ==
    \A p \in Procs :
        pc[p] = "done" =>
            /\ pc'[p] = "done"
            /\ ret'[p] = ret[p]
            /\ nreads'[p] = nreads[p]
            /\ invoked'[p] = invoked[p]
            /\ closed'[p] = closed[p]

C5_OneOutcomePerStream == [](C5_Outcome) /\ [][C5_NoRetry]_vars

\* A dispatch that read bytes, failed and closed the stream.
C5_Witness ==
    \E p \in Procs :
        /\ pc[p] = "done"
        /\ closed[p]
        /\ ret[p].err = ErrNotFound
        /\ Len(taken[p]) = 2

\* C6: whatever Handler returns, also an error, the consumed bytes it returns
\* are prefix[:off], the bytes read during the call.
C6_ConsumedAlwaysReturned ==
    \A p \in Procs :
        Returned(p) => ret[p].prefix = SubSeq(prefix[p], 1, off[p])

\* C7: with one pattern registered, a stream that delivers that pattern and
\* goes on resolves to the pattern's handler without error, and the consumed
\* bytes are the pattern, however the pattern was split into reads.
C7_ExactMatch ==
    \A p \in Procs :
        \A k \in DOMAIN trie :
            (/\ pc[p] = "resolved"
             /\ Size(trie) = 1
             /\ EndedOnData(p)
             /\ IsPrefix(taken[p], k))
            => ret[p] = [handler |-> trie[k], prefix |-> k, err |-> None]

\* A two-byte pattern delivered in two reads resolved to its handler.
C7_Witness ==
    \E p \in Procs :
        /\ pc[p] = "resolved"
        /\ Size(trie) = 1
        /\ EndedOnData(p)
        /\ nreads[p] = 2
        /\ ret[p].prefix \in DOMAIN trie
        /\ ret[p].handler = "H1"

\* C8: Handler never holds, and never takes from the stream, more bytes than
\* the longest registered pattern has.
C8_BoundedInspection ==
    \A p \in Procs :
        /\ off[p] <= Depth(trie)
        /\ pc[p] \in {"loop", "resolved"} => Len(taken[p]) <= Depth(trie)

\* The loop is still running with one byte of the buffer left to fill.
C8_Witness ==
    \E p \in Procs :
        /\ pc[p] = "loop"
        /\ Depth(trie) = 2
        /\ off[p] = 1
        /\ nreads[p] = 1

\* C9: with no pattern registered Handler reads nothing from the stream and
\* returns ErrNotFound when no fallback is set, else the fallback with no
\* consumed bytes and no error.
C9_EmptyIndex ==
    \A p \in Procs :
        (Returned(p) /\ Size(trie) = 0) =>
            /\ nreads[p] = 0
            /\ pc[p] = "resolved" => taken[p] = <<>>
            /\ IF notFound = None
               THEN ret[p] = [handler |-> None, prefix |-> <<>>, err |-> ErrNotFound]
               ELSE ret[p] = [handler |-> notFound, prefix |-> <<>>, err |-> None]

\* With no pattern registered the fallback was invoked.
C9_Witness ==
    \E p \in Procs :
        /\ pc[p] = "done"
        /\ Size(trie) = 0
        /\ invoked[p] = <<"H1">>
        /\ nreads[p] = 0

\* C10: with patterns registered, when no registered pattern is a prefix of
\* the bytes the stream delivered and no read failed, Handler returns the
\* fallback without error if one is set and ErrNotFound otherwise, in both
\* cases with exactly the bytes read.
C10_FallbackOnMiss ==
    \A p \in Procs :
        (/\ pc[p] = "resolved"
         /\ Size(trie) > 0
         /\ lastRead[p].err = None
         /\ Matches(taken[p]) = {})
        => /\ ret[p].prefix = taken[p]
           /\ IF notFound # None
              THEN ret[p].handler = notFound /\ ret[p].err = None
              ELSE ret[p].handler = None /\ ret[p].err = ErrNotFound

\* The trie reported a dead end on the first read and the fallback was
\* returned with the two bytes of that read.
C10_Witness ==
    \E p \in Procs :
        /\ pc[p] = "resolved"
        /\ Size(trie) > 0
        /\ EndedOnData(p)
        /\ Matches(taken[p]) = {}
        /\ nreads[p] = 1
        /\ Len(ret[p].prefix) = 2
        /\ ret[p].handler = "H2"
        /\ notFound = "H2"

\* C11: last registration wins. After any sequence of HandlePrefix and
\* NotFound calls every pattern maps to the handler of the latest call that
\* named it and the fallback is the handler of the latest NotFound call; a
\* Handler call that succeeds returns the fallback or the latest handler of
\* a pattern that starts the bytes it read, never a replaced one.
C11_LastRegistrationWins ==
    /\ trie = latest
    /\ notFound = lastFallback
    /\ \A p \in Procs :
        (Returned(p) /\ ret[p].err = None) =>
            \/ ret[p].handler = lastFallback
            \/ \E k \in DOMAIN latest :
                /\ IsPrefix(k, ret[p].prefix)
                /\ ret[p].handler = latest[k]

\* A pattern was registered again with another handler and a later Handler
\* call that read exactly this pattern returned the new handler, which is
\* not the fallback.
C11_Witness ==
    \E p \in Procs, k \in replaced :
        /\ Returned(p)
        /\ ret[p].err = None
        /\ ret[p].prefix = k
        /\ ret[p].handler = latest[k]
        /\ ret[p].handler # notFound

\* The state of one Handler call and of the ServeConn around it.
Call(p) ==
    [pc |-> IF pc[p] = "done" THEN "resolved" ELSE pc[p],
     parent |-> parent[p], handler |-> handler[p], prefix |-> prefix[p],
     off |-> off[p], ret |-> ret[p]]

Conn(p) == <<pc[p], closed[p], invoked[p], wrapped[p], out[p], taken[p],
             nreads[p], lastRead[p], hist[p]>>

\* Every call stands where a call run alone on the same stream would stand.
C12_AsAlone ==
    \A p \in Procs :
        pc[p] # "idle" => Call(p) = Solo(trie, notFound, hist[p])

\* No step touches the buffer, offset, cursor, result or stream of two calls.
C12_Private ==
    \A p \in Procs : \A q \in Procs \ {p} :
        (Call(p)' # Call(p) \/ Conn(p)' # Conn(p)) =>
            (Call(q)' = Call(q) /\ Conn(q)' = Conn(q))

\* C12: isolation of concurrent dispatches. Once registration is complete,
\* in every interleaving of ServeConn calls on distinct streams each call
\* has the handler, consumed bytes and error that the call run alone on its
\* stream has; buffer, offset and cursor belong to one call, and no step of
\* one call, failing or not, changes another call.
C12_Isolation == [](C12_AsAlone) /\ [][C12_Private]_vars

\* One call failed on its second read while the other was in its loop with
\* a byte read, and that other call then returned a handler.
C12_Witness ==
    \E p \in Procs : \E q \in Procs \ {p} :
        /\ Returned(p) /\ ret[p].err \in ReadErrors /\ nreads[p] = 2
        /\ Returned(q) /\ ret[q].err = None /\ nreads[q] = 2
        /\ ret[q].handler \in Handlers

\* C13: read failure before any byte was read. If the first Read of the
\* stream reports an error, Handler returns that error, which is not
\* ErrNotFound, and no handler, not even the fallback; ServeConn then closes
\* the stream and invokes and wraps nothing.
C13_FirstReadFails ==
    \A p \in Procs :
        (Returned(p) /\ nreads[p] = 1 /\ lastRead[p].err # None) =>
            /\ ret[p].err = hist[p][1].err
            /\ ret[p].err \in ReadErrors
            /\ ret[p].err # ErrNotFound
            /\ ret[p].handler = None
            /\ pc[p] = "done" =>
                /\ closed[p]
                /\ invoked[p] = <<>>
                /\ ~wrapped[p].active

\* With a pattern and a fallback registered, the first Read failed with no
\* byte and ServeConn is over.
C13_Witness ==
    \E p \in Procs :
        /\ pc[p] = "done"
        /\ Size(trie) > 0
        /\ notFound \in Handlers
        /\ nreads[p] = 1
        /\ lastRead[p].err \in ReadErrors
        /\ taken[p] = <<>>
        /\ closed[p]

\* While Handler is in its loop the trie has reported a cursor for all the
\* bytes read so far, and some pattern goes on after them.
C14_StillOpen ==
    \A p \in Procs :
        pc[p] = "loop" =>
            /\ parent[p] = Cursor(taken[p])
            /\ \E k \in DOMAIN trie : IsPrefix(taken[p], k) /\ k # taken[p]

\* A Read is issued only by a call that is in its loop.
C14_ReadsInLoop ==
    \A p \in Procs : nreads'[p] # nreads[p] => pc[p] = "loop"

\* C14: early stop. Once Get reports no further cursor, because no pattern
\* goes on after the bytes read, Handler issues no further Read and returns:
\* every Read is issued while a cursor is held and a pattern can still be
\* extended.
C14_EarlyStop == [](C14_StillOpen) /\ [][C14_ReadsInLoop]_vars

\* Handler returned after a Read that delivered bytes, with room left in its
\* buffer: the trie had reported no further cursor.
C14_Witness ==
    \E p \in Procs :
        /\ Returned(p)
        /\ EndedOnData(p)
        /\ ret[p].err = None
        /\ off[p] < Depth(trie)
        /\ ~ \E k \in DOMAIN trie : IsPrefix(taken[p], k) /\ k # taken[p]

\* C15: every nonzero read is used. After each Read that returned n > 0
\* bytes, with or without an error, the cursor has been advanced with these
\* bytes, off has grown by n, and the bytes are among those Handler returns.
C15_EveryNonzeroReadUsed ==
    \A p \in Procs :
        (pc[p] \in {"loop", "resolved"} /\ lastRead[p].i > 0) =>
            /\ off[p] = Len(taken[p])
            /\ SubSeq(prefix[p], 1, off[p]) = taken[p]
            /\ pc[p] = "loop" => parent[p] = Cursor(taken[p])
            /\ pc[p] = "resolved" => ret[p].prefix = taken[p]

\* What Handler does to the stream and the trie: its reads and advances.
Matching(p) == <<nreads[p], off[p], parent[p], prefix[p], handler[p]>>

C16_Steps ==
    \A p \in Procs :
        /\ Matching(p)' # Matching(p) =>
              /\ pc[p] \in {"idle", "loop"}
              /\ ~wrapped[p].active /\ ~wrapped'[p].active
              /\ invoked[p] = <<>> /\ invoked'[p] = <<>>
        /\ wrapped'[p].active /\ ~wrapped[p].active =>
              /\ pc[p] = "resolved"
              /\ wrapped'[p] = UnreadConn(ret[p].prefix)
        /\ invoked'[p] # invoked[p] =>
              /\ pc[p] = "resolved"
              /\ invoked[p] = <<>>
              /\ wrapped'[p] = UnreadConn(ret[p].prefix)
        /\ invoked[p] # <<>> =>
              /\ Matching(p)' = Matching(p)
              /\ ret'[p] = ret[p]
              /\ ~closed[p] /\ ~closed'[p]
              /\ invoked'[p] = invoked[p]

\* C16: ordering within one ServeConn call. Every Read and every Get of
\* Handler happens before the conn is wrapped; the handler is invoked on the
\* conn wrapped with the bytes Handler returned; after the handler was
\* invoked ServeConn reads, advances and closes nothing.
C16_Ordering == [][C16_Steps]_vars

\* A call that made two reads, then invoked the handler, which has read from
\* the wrapped conn.
C16_Witness ==
    \E p \in Procs :
        /\ pc[p] = "done"
        /\ nreads[p] = 2
        /\ invoked[p] = <<ret[p].handler>>
        /\ wrapped[p].active
        /\ out[p] # <<>>

C17_BoundedReads ==
    \A p \in Procs : nreads[p] <= Depth(trie) + 1

\* Each iteration of the loop ends the loop or moves off forward, and an
\* iteration whose Read returned no byte and no error ends it and leaves the
\* result to the handler found so far, else the fallback, else ErrNotFound,
\* with the bytes read so far.
C17_Progress ==
    \A p \in Procs :
        nreads'[p] # nreads[p] =>
            /\ pc[p] = "loop"
            /\ pc'[p] = "resolved" \/ (pc'[p] = "loop" /\ off'[p] > off[p])
            /\ lastRead'[p] = [i |-> 0, err |-> None] =>
                /\ pc'[p] = "resolved"
                /\ ret'[p].prefix = taken[p]
                /\ ret'[p].handler =
                      IF handler[p] # None THEN handler[p] ELSE notFound
                /\ ret'[p].err =
                      IF ret'[p].handler = None THEN ErrNotFound ELSE None

\* C17: termination. On a stream whose every Read call returns, Handler
\* returns after at most Depth() + 1 Read calls: each iteration ends the loop
\* or strictly increases off, and a Read of no byte with no error, also as the
\* first Read, ends the loop and leaves the result to the fallback or
\* ErrNotFound with the bytes read so far.
C17_Termination ==
    /\ [](C17_BoundedReads)
    /\ [][C17_Progress]_vars
    /\ \A p \in Procs : (pc[p] = "loop") ~> Returned(p)

\* The first Read returned no byte and no error and Handler returned the
\* fallback with no bytes.
C17_Witness ==
    \E p \in Procs :
        /\ Returned(p)
        /\ Size(trie) > 0
        /\ nreads[p] = 1
        /\ hist[p][1] = [bytes |-> <<>>, err |-> None]
        /\ ret[p] = [handler |-> notFound, prefix |-> <<>>, err |-> None]

\* C18: Handler returns a handler exactly when it returns no error. A
\* returned handler is one stored in the trie or the fallback, and is not
\* nil; with an error the returned handler is nil; so ServeConn never invokes
\* a nil handler. This holds for the empty trie and for patterns registered
\* with a nil handler.
C18_HandlerIffNoError ==
    \A p \in Procs :
        /\ Returned(p) =>
            /\ ret[p].err = None <=> ret[p].handler # None
            /\ ret[p].err = None =>
                  \/ ret[p].handler = notFound
                  \/ \E k \in DOMAIN trie : trie[k] = ret[p].handler
        /\ \A n \in 1..Len(invoked[p]) : invoked[p][n] # None

\* The bytes read are exactly a pattern registered with a nil handler, and
\* ServeConn invoked the fallback.
C18_Witness ==
    \E p \in Procs :
        /\ pc[p] = "done"
        /\ ret[p].prefix \in DOMAIN trie
        /\ trie[ret[p].prefix] = None
        /\ ret[p].err = None
        /\ notFound \in Handlers
        /\ invoked[p] = <<notFound>>

\* The registry is what the registration calls left.
C19_AsRegistered == trie = latest /\ notFound = lastFallback

\* A step that changes the registry is a HandlePrefix or NotFound call: it
\* changes nothing of any ServeConn call, it removes no pattern, and it
\* changes the trie only by Put.
C19_OnlyRegistration ==
    /\ DOMAIN trie \subseteq DOMAIN trie'
    /\ regVars' # regVars =>
        /\ UNCHANGED <<pc, loopVars, ret, streamVars, connVars>>
        /\ trie' = trie \/ notFound' = notFound
        /\ trie' # trie =>
              \E h \in Handlers, ps \in PrefixLists : trie' = PutAll(trie, h, ps)

\* C19: Handler and ServeConn leave the registry unchanged. After any
\* ServeConn calls, whatever their outcomes, the patterns, their handlers and
\* the fallback are what HandlePrefix and NotFound left; only these two
\* change them, and no pattern is ever removed.
C19_RegistryFrame == [](C19_AsRegistered) /\ [][C19_OnlyRegistration]_vars

\* A ServeConn call that failed on its second read is over, with a full trie
\* and a fallback registered.
C19_Witness ==
    \E p \in Procs :
        /\ pc[p] = "done" /\ ret[p].err \in ReadErrors /\ closed[p]
        /\ nreads[p] = 2
        /\ Size(trie) = MaxPatterns
        /\ notFound \in Handlers

====
